---- MODULE Spec2Model ----
(***************************************************************************)
(* A model of syz-dashboard-proxy: the fan-out dispatcher of proxy.go and  *)
(* the process-wide metrics of metrics.go.  Each worker is one goroutine   *)
(* serving one HTTP request through proxy.Proxy; the workers interleave at *)
(* the points where they touch shared state (the registry lock, the        *)
(* metrics) or call a downstream dashboard.                                *)
(***************************************************************************)
EXTENDS Integers, Sequences, FiniteSets, TLC

(***************************************************************************)
(* Bounds of the model.                                                    *)
(***************************************************************************)
\* Requests served in one behaviour.
MaxRequests == 2

\* The goroutines that serve requests.
Workers == {"w1", "w2"}

\* The behaviours with one request at a time are served by this worker alone.
Sequential == {"w1"}

\* Values of the "client" form field.
Clients == {"syz-ci"}

\* Forward lists (the --forward flag) the proxy is started with.
ForwardConfigs ==
    { <<>>, <<"dashA">>, <<"dashA", "dashA">>, <<"dashA", "dashB">>,
      <<"dashB", "dashA", "dashB">> }

(***************************************************************************)
(* Program constants.                                                      *)
(***************************************************************************)
StatusBadRequest == 400

errUnknownMethod == "unknown method"

\* The cases of the switch in proxy.Proxy, in source order.
KnownMethods ==
    { "upload_build", "builder_poll", "job_poll", "job_done",
      "report_build_error", "commit_poll", "upload_commits", "report_crash",
      "need_repro", "report_failed_repro", "log_error",
      "reporting_poll_bugs", "reporting_poll_notifs",
      "reporting_poll_closed", "reporting_update", "manager_stats",
      "bug_list", "load_bug" }

\* Method names that reach the default branch of the switch ("" is an absent
\* form field; "invalid" is the label the default branch counts under).
UnknownMethods == { "frobnicate", "", "invalid" }

AllMethods == KnownMethods \cup UnknownMethods

\* The methods of the concurrent behaviours: one handler of each shape (a
\* payload and a checked dashapi error, a payload and an unchecked call, no
\* payload, the metrics of manager_stats, the default branch).
SampleMethods ==
    { "upload_build", "log_error", "commit_poll", "manager_stats",
      "frobnicate" }

\* The handlers that read no payload: commitPoll and bugList.
NoPayloadMethods == { "commit_poll", "bug_list" }

\* The dashapi operation each handler invokes on every dashboard.
AdapterOp(method) ==
    CASE method = "upload_build"          -> "UploadBuild"
      [] method = "builder_poll"          -> "BuilderPoll"
      [] method = "job_poll"              -> "JobPoll"
      [] method = "job_done"              -> "JobDone"
      [] method = "report_build_error"    -> "ReportBuildError"
      [] method = "commit_poll"           -> "CommitPoll"
      [] method = "upload_commits"        -> "UploadCommits"
      [] method = "report_crash"          -> "ReportCrash"
      [] method = "need_repro"            -> "NeedRepro"
      [] method = "report_failed_repro"   -> "ReportFailedRepro"
      [] method = "log_error"             -> "LogError"
      [] method = "reporting_poll_bugs"   -> "ReportingPollBugs"
      [] method = "reporting_poll_notifs" -> "ReportingPollNotifications"
      [] method = "reporting_poll_closed" -> "ReportingPollClosed"
      [] method = "reporting_update"      -> "ReportingUpdate"
      [] method = "manager_stats"         -> "UploadManagerStats"
      [] method = "bug_list"              -> "BugList"
      [] method = "load_bug"              -> "LoadBug"

\* Every handler, logError too, tests an error of its dashapi call.
ChecksEveryAdapterError(method) == TRUE

\* The handlers that test the error of the dashapi call (all but logError,
\* whose call dash.LogError returns nothing).
ChecksAdapterError(method) == method # "log_error"

(***************************************************************************)
(* Inputs.                                                                 *)
(***************************************************************************)
\* Decoded manager_stats records (dashapi.ManagerStatsReq).
StatsReqs ==
    { [Name |-> "fuzzer1", UpTime |-> 100, Corpus |-> 5, PCs |-> 0,
       Cover |-> 0, Crashes |-> 2, Execs |-> 0, SuppressedCrashes |-> 0,
       FuzzingTime |-> 0],
      [Name |-> "fuzzer2", UpTime |-> 7, Corpus |-> 3, PCs |-> 4,
       Cover |-> 6, Crashes |-> 1, Execs |-> 9, SuppressedCrashes |-> 8,
       FuzzingTime |-> 11] }

ManagerNames == { s.Name : s \in StatsReqs }

NoStats ==
    [Name |-> "", UpTime |-> 0, Corpus |-> 0, PCs |-> 0, Cover |-> 0,
     Crashes |-> 0, Execs |-> 0, SuppressedCrashes |-> 0, FuzzingTime |-> 0]

\* The "payload" form field, by what the three decode steps make of it:
\* gzip  - gzip.NewReader accepts the header,
\* json  - json.Decoder.Decode fills the request struct,
\* close - gzip.Reader.Close reports no error,
\* req   - the decoded record (its manager_stats fields).
Payload(gzip, json, close, r) ==
    [gzip |-> gzip, json |-> json, close |-> close, req |-> r]

\* An absent or empty field, or bytes that are no gzip stream.
NotGzip == Payload(FALSE, FALSE, FALSE, NoStats)

\* A gzip stream of bytes that are no JSON of the expected type.
NotJSON == Payload(TRUE, FALSE, FALSE, NoStats)

\* A gzip stream whose JSON decodes and whose Close fails.
BadClose == Payload(TRUE, TRUE, FALSE, NoStats)

BadPayloads == { NotGzip, NotJSON, BadClose }

\* A payload that decodes, for the handlers that read no manager_stats field.
GoodPayload == Payload(TRUE, TRUE, TRUE, NoStats)

StatsPayloads == { Payload(TRUE, TRUE, TRUE, s) : s \in StatsReqs }

Payloads == BadPayloads \cup {GoodPayload} \cup StatsPayloads

\* The payloads a request of the given method is sent with.
PayloadsFor(method) ==
    IF method = "manager_stats"
    THEN BadPayloads \cup StatsPayloads
    ELSE BadPayloads \cup {GoodPayload}

VARIABLES
    forward,     \* the forward list given to New
    dashes,      \* proxy.dashes: forward target -> dashboard client
    dashMu,      \* proxy.dashMu: [readers, writer]
    metrics,     \* the metric vectors of metrics.go, by Go variable name
    req,         \* per worker: the request it serves and where it is
    nreq         \* requests accepted so far

vars == <<forward, dashes, dashMu, metrics, req, nreq>>


(***************************************************************************)
(* Construction: proxy.New.                                                *)
(***************************************************************************)
\* dashapi.New("proxy", f, ""): the client of one dashboard.
Dashboard(f) == [client |-> "proxy", addr |-> f, key |-> ""]

\* New with a loop that stops one entry short of the end of forward.
NewDashesDropsLast(fwd) ==
    [k \in { fwd[i] : i \in 1..(Len(fwd) - 1) } |-> Dashboard(k)]

\* The loop of New: dashes[f] = dashapi.New(...) for each f of forward, a later
\* assignment to the same key replacing the earlier one.
RECURSIVE NewDashes(_)
NewDashes(fwd) ==
    IF fwd = <<>>
    THEN <<>>
    ELSE LET f == fwd[Len(fwd)]
             rest == NewDashes(SubSeq(fwd, 1, Len(fwd) - 1))
         IN  [k \in DOMAIN rest \cup {f} |->
                 IF k = f THEN Dashboard(f) ELSE rest[k]]

\* The zero value of sync.RWMutex.
NewRWMutex == [readers |-> 0, writer |-> FALSE]

(***************************************************************************)
(* Metrics: the vectors registered in metrics.go that proxy.go writes.     *)
(***************************************************************************)
RpcLabels == Clients \X (KnownMethods \cup {"invalid"})

ManagerLabels == { <<n>> : n \in ManagerNames }

NewMetrics ==
    [rpcCounters                |-> [l \in RpcLabels |-> 0],
     managerUptimeGauges        |-> [l \in ManagerLabels |-> 0],
     managerCorpusGauges        |-> [l \in ManagerLabels |-> 0],
     managerPCsGauges           |-> [l \in ManagerLabels |-> 0],
     managerCoverageGauges      |-> [l \in ManagerLabels |-> 0],
     managerCrashesCounters     |-> [l \in ManagerLabels |-> 0],
     managerSuppCrashesCounters |-> [l \in ManagerLabels |-> 0],
     managerExecsCounters       |-> [l \in ManagerLabels |-> 0],
     managerFuzzingDurCounters  |-> [l \in ManagerLabels |-> 0]]

\* vec.WithLabelValues(labels...).Inc() / .Add(v) / .Set(v)
MetricOp(vec, labels, kind, v) ==
    [vec |-> vec, labels |-> labels, kind |-> kind, v |-> v]

\* A metric layer whose Add overwrites the value, as Set does.
ApplyOpAddSets(m, op) ==
    [m EXCEPT ![op.vec][op.labels] =
        CASE op.kind = "Set" -> op.v
          [] op.kind = "Add" -> op.v
          [] op.kind = "Inc" -> @ + 1]

ApplyOp(m, op) ==
    [m EXCEPT ![op.vec][op.labels] =
        CASE op.kind = "Set" -> op.v
          [] op.kind = "Add" -> @ + op.v
          [] op.kind = "Inc" -> @ + 1]

\* managerStats without its managerCoverageGauges statement.
ManagerStatsUpdatesNoCoverage(r) ==
    << MetricOp("managerUptimeGauges", <<r.Name>>, "Set", r.UpTime),
       MetricOp("managerCorpusGauges", <<r.Name>>, "Set", r.Corpus),
       MetricOp("managerPCsGauges", <<r.Name>>, "Set", r.PCs),
       MetricOp("managerCrashesCounters", <<r.Name>>, "Add", r.Crashes),
       MetricOp("managerExecsCounters", <<r.Name>>, "Add", r.Execs),
       MetricOp("managerSuppCrashesCounters", <<r.Name>>, "Add",
                r.SuppressedCrashes),
       MetricOp("managerFuzzingDurCounters", <<r.Name>>, "Add",
                r.FuzzingTime) >>

\* The eight metric statements of managerStats, in source order.
ManagerStatsUpdates(r) ==
    << MetricOp("managerUptimeGauges", <<r.Name>>, "Set", r.UpTime),
       MetricOp("managerCorpusGauges", <<r.Name>>, "Set", r.Corpus),
       MetricOp("managerPCsGauges", <<r.Name>>, "Set", r.PCs),
       MetricOp("managerCoverageGauges", <<r.Name>>, "Set", r.Cover),
       MetricOp("managerCrashesCounters", <<r.Name>>, "Add", r.Crashes),
       MetricOp("managerExecsCounters", <<r.Name>>, "Add", r.Execs),
       MetricOp("managerSuppCrashesCounters", <<r.Name>>, "Add",
                r.SuppressedCrashes),
       MetricOp("managerFuzzingDurCounters", <<r.Name>>, "Add",
                r.FuzzingTime) >>

\* rpcCounters.WithLabelValues(client, method).Inc() after a handler returns.
RequestCounterOp(client, method) ==
    MetricOp("rpcCounters", <<client, method>>, "Inc", 1)

\* rpcCounters.WithLabelValues(client, "invalid").Inc() of the default branch.
InvalidCounterOp(client) ==
    MetricOp("rpcCounters", <<client, "invalid">>, "Inc", 1)

(***************************************************************************)
(* One request.                                                            *)
(***************************************************************************)
\* c.JSON(http.StatusBadRequest, gin.H{"error": errUnknownMethod.Error()})
ErrorResponse == [status |-> StatusBadRequest, error |-> errUnknownMethod]

\* A worker with no request.  calls, resp, ops, rlocks and runlocks record
\* what the request did: the dashapi calls made (dashboard, operation,
\* whether it returned an error), the responses written, the metric
\* operations performed, the RLock and RUnlock calls.
Idle ==
    [pc |-> "idle", client |-> "", method |-> "",
     payload |-> NotGzip,
     mstep |-> 0, order |-> <<>>, idx |-> 0,
     calls |-> <<>>, resp |-> <<>>, ops |-> <<>>,
     rlocks |-> 0, runlocks |-> 0]

\* A handler that does not test the error of r.Close().
DecodesUncheckedClose(payload) == payload.gzip /\ payload.json

\* The three decode steps of a handler: gzip.NewReader, Decode, Close.
Decodes(payload) == payload.gzip /\ payload.json /\ payload.close

\* The orders in which "for _, dash := range p.dashes" may visit the map.
IterationOrders(m) ==
    { o \in [1..Cardinality(DOMAIN m) -> DOMAIN m] :
        \A i, j \in DOMAIN o : i # j => o[i] # o[j] }

Init ==
    /\ forward \in ForwardConfigs
    /\ dashes = NewDashes(forward)
    /\ dashMu = NewRWMutex
    /\ metrics = NewMetrics
    /\ req = [w \in Workers |-> Idle]
    /\ nreq = 0

\* gin hands a POST /api to proxy.Proxy on a goroutine of its own.
Arrive(w, client, method, payload) ==
    /\ req[w].pc \in {"idle", "done"}
    /\ nreq < MaxRequests
    /\ nreq' = nreq + 1
    /\ req' = [req EXCEPT ![w] =
                  [Idle EXCEPT !.pc = "switch", !.client = client,
                               !.method = method, !.payload = payload]]
    /\ UNCHANGED <<forward, dashes, dashMu, metrics>>

\* A switch whose commit_poll and bug_list handlers decode a payload first.
ProxyKnownAlwaysDecodes(w) ==
    /\ req[w].pc = "switch"
    /\ req[w].method \in KnownMethods
    /\ req' = [req EXCEPT ![w].pc = "decode"]
    /\ UNCHANGED <<forward, dashes, dashMu, metrics, nreq>>

\* Proxy: the switch selects the handler of a known method.
ProxyKnown(w) ==
    /\ req[w].pc = "switch"
    /\ req[w].method \in KnownMethods
    /\ req' = [req EXCEPT ![w].pc =
                  IF req[w].method \in NoPayloadMethods
                  THEN "rlock" ELSE "decode"]
    /\ UNCHANGED <<forward, dashes, dashMu, metrics, nreq>>

\* A default branch without its return: it falls through to the counter
\* after the switch.
ProxyDefaultFallsThrough(w) ==
    /\ req[w].pc = "switch"
    /\ req[w].method \notin KnownMethods
    /\ LET op == InvalidCounterOp(req[w].client)
       IN  /\ metrics' = ApplyOp(metrics, op)
           /\ req' = [req EXCEPT ![w].pc = "return",
                                 ![w].ops = Append(@, op),
                                 ![w].resp = Append(@, ErrorResponse)]
    /\ UNCHANGED <<forward, dashes, dashMu, nreq>>

\* Proxy: the default branch.
ProxyDefault(w) ==
    /\ req[w].pc = "switch"
    /\ req[w].method \notin KnownMethods
    /\ LET op == InvalidCounterOp(req[w].client)
       IN  /\ metrics' = ApplyOp(metrics, op)
           /\ req' = [req EXCEPT ![w].pc = "done",
                                 ![w].ops = Append(@, op),
                                 ![w].resp = Append(@, ErrorResponse)]
    /\ UNCHANGED <<forward, dashes, dashMu, nreq>>

\* A decode failure answered with an error string of its own.
DecodeFailOwnError(w) ==
    /\ req[w].pc = "decode"
    /\ ~Decodes(req[w].payload)
    /\ req' = [req EXCEPT ![w].pc = "return",
                          ![w].resp = Append(@, [status |-> StatusBadRequest,
                                                 error |-> "bad payload"])]
    /\ UNCHANGED <<forward, dashes, dashMu, metrics, nreq>>

\* A handler with a payload: one of the three decode steps fails.
DecodeFail(w) ==
    /\ req[w].pc = "decode"
    /\ ~Decodes(req[w].payload)
    /\ req' = [req EXCEPT ![w].pc = "return",
                          ![w].resp = Append(@, ErrorResponse)]
    /\ UNCHANGED <<forward, dashes, dashMu, metrics, nreq>>

\* A handler with a payload: the payload decodes.
DecodeOk(w) ==
    /\ req[w].pc = "decode"
    /\ Decodes(req[w].payload)
    /\ req' = [req EXCEPT ![w].pc =
                  IF req[w].method = "manager_stats"
                  THEN "metrics" ELSE "rlock"]
    /\ UNCHANGED <<forward, dashes, dashMu, metrics, nreq>>

\* managerStats: the next of its eight metric statements.
UpdateMetric(w) ==
    /\ req[w].pc = "metrics"
    /\ LET updates == ManagerStatsUpdates(req[w].payload.req)
           n == req[w].mstep + 1
       IN  /\ metrics' = ApplyOp(metrics, updates[n])
           /\ req' = [req EXCEPT ![w].mstep = n,
                                 ![w].ops = Append(@, updates[n]),
                                 ![w].pc = IF n = Len(updates)
                                           THEN "rlock" ELSE "metrics"]
    /\ UNCHANGED <<forward, dashes, dashMu, nreq>>

\* p.dashMu.RLock() and the start of the range over p.dashes.
RLock(w) ==
    /\ req[w].pc = "rlock"
    /\ ~dashMu.writer
    /\ dashMu' = [dashMu EXCEPT !.readers = @ + 1]
    /\ \E o \in IterationOrders(dashes) :
          req' = [req EXCEPT ![w].pc = "range", ![w].order = o,
                             ![w].idx = 1, ![w].rlocks = @ + 1]
    /\ UNCHANGED <<forward, dashes, metrics, nreq>>

\* The record of the dashapi call of the loop body.
Call(w, err) ==
    [dash |-> req[w].order[req[w].idx],
     op |-> AdapterOp(req[w].method), err |-> err]

\* A loop body that, after a call without error, leaves the loop's next
\* dashboard out.
InvokeOkSkipsNext(w, err) ==
    /\ req[w].pc = "range"
    /\ req[w].idx <= Len(req[w].order)
    /\ err => ~ChecksAdapterError(req[w].method)
    /\ req' = [req EXCEPT ![w].calls = Append(@, Call(w, err)),
                          ![w].idx = @ + 2]
    /\ UNCHANGED <<forward, dashes, dashMu, metrics, nreq>>

\* The loop body: the dashapi call on the next dashboard returns no error,
\* or an error the handler does not look at.
InvokeOk(w, err) ==
    /\ req[w].pc = "range"
    /\ req[w].idx <= Len(req[w].order)
    /\ err => ~ChecksAdapterError(req[w].method)
    /\ req' = [req EXCEPT ![w].calls = Append(@, Call(w, err)),
                          ![w].idx = @ + 1]
    /\ UNCHANGED <<forward, dashes, dashMu, metrics, nreq>>

\* An error branch without its return: the error response is written and
\* the loop goes on.
InvokeErrContinues(w) ==
    /\ req[w].pc = "range"
    /\ req[w].idx <= Len(req[w].order)
    /\ ChecksAdapterError(req[w].method)
    /\ req' = [req EXCEPT ![w].calls = Append(@, Call(w, TRUE)),
                          ![w].resp = Append(@, ErrorResponse),
                          ![w].idx = @ + 1]
    /\ UNCHANGED <<forward, dashes, dashMu, metrics, nreq>>

\* An error branch that returns without p.dashMu.RUnlock().
InvokeErrKeepsLock(w) ==
    /\ req[w].pc = "range"
    /\ req[w].idx <= Len(req[w].order)
    /\ ChecksAdapterError(req[w].method)
    /\ req' = [req EXCEPT ![w].calls = Append(@, Call(w, TRUE)),
                          ![w].resp = Append(@, ErrorResponse),
                          ![w].pc = "return"]
    /\ UNCHANGED <<forward, dashes, dashMu, metrics, nreq>>

\* The loop body: the dashapi call returns an error; RUnlock, the error
\* response, return.
InvokeErr(w) ==
    /\ req[w].pc = "range"
    /\ req[w].idx <= Len(req[w].order)
    /\ ChecksAdapterError(req[w].method)
    /\ dashMu' = [dashMu EXCEPT !.readers = @ - 1]
    /\ req' = [req EXCEPT ![w].calls = Append(@, Call(w, TRUE)),
                          ![w].runlocks = @ + 1,
                          ![w].resp = Append(@, ErrorResponse),
                          ![w].pc = "return"]
    /\ UNCHANGED <<forward, dashes, metrics, nreq>>

\* The loop is over: p.dashMu.RUnlock() and the handler returns.
RUnlock(w) ==
    /\ req[w].pc = "range"
    /\ req[w].idx > Len(req[w].order)
    /\ dashMu' = [dashMu EXCEPT !.readers = @ - 1]
    /\ req' = [req EXCEPT ![w].runlocks = @ + 1, ![w].pc = "return"]
    /\ UNCHANGED <<forward, dashes, metrics, nreq>>

\* A Proxy that skips the request counter when the handler wrote an error
\* response.
ProxyReturnSkipsOnError(w) ==
    /\ req[w].pc = "return"
    /\ LET op == RequestCounterOp(req[w].client, req[w].method)
       IN  IF req[w].resp # <<>>
           THEN /\ req' = [req EXCEPT ![w].pc = "done"]
                /\ UNCHANGED metrics
           ELSE /\ metrics' = ApplyOp(metrics, op)
                /\ req' = [req EXCEPT ![w].pc = "done",
                                      ![w].ops = Append(@, op)]
    /\ UNCHANGED <<forward, dashes, dashMu, nreq>>

\* A manager_stats branch without its return: the counter of the branch and
\* the counter after the switch both run.
ProxyReturnCountsTwice(w) ==
    /\ req[w].pc = "return"
    /\ LET op == RequestCounterOp(req[w].client, req[w].method)
       IN  IF req[w].method = "manager_stats"
           THEN /\ metrics' = ApplyOp(ApplyOp(metrics, op), op)
                /\ req' = [req EXCEPT ![w].pc = "done",
                                      ![w].ops = @ \o <<op, op>>]
           ELSE /\ metrics' = ApplyOp(metrics, op)
                /\ req' = [req EXCEPT ![w].pc = "done",
                                      ![w].ops = Append(@, op)]
    /\ UNCHANGED <<forward, dashes, dashMu, nreq>>

\* Back in Proxy after the handler returned: the request counter.
ProxyReturn(w) ==
    /\ req[w].pc = "return"
    /\ LET op == RequestCounterOp(req[w].client, req[w].method)
       IN  /\ metrics' = ApplyOp(metrics, op)
           /\ req' = [req EXCEPT ![w].pc = "done", ![w].ops = Append(@, op)]
    /\ UNCHANGED <<forward, dashes, dashMu, nreq>>

\* The steps of the workers W, serving requests of the methods M sent with
\* the payloads P[m].
ServeWith(W, M, P) ==
    \E w \in W :
        \/ \E c \in Clients, m \in M :
              \E p \in P[m] : Arrive(w, c, m, p)
        \/ ProxyKnown(w)
        \/ ProxyDefault(w)
        \/ DecodeFail(w)
        \/ DecodeOk(w)
        \/ UpdateMetric(w)
        \/ RLock(w)
        \/ \E err \in BOOLEAN : InvokeOk(w, err)
        \/ InvokeErr(w)
        \/ RUnlock(w)
        \/ ProxyReturn(w)

\* The steps of the workers W, serving requests of the methods M.
Serve(W, M) == ServeWith(W, M, [m \in M |-> PayloadsFor(m)])

\* One request at a time, of any method.
Next == Serve(Sequential, AllMethods)

Spec == Init /\ [][Next]_vars

\* Concurrent requests.
NextConc == Serve(Workers, SampleMethods)

SpecConc == Init /\ [][NextConc]_vars

\* A later manager_stats record of fuzzer1, every field changed.
LaterReport ==
    [Name |-> "fuzzer1", UpTime |-> 200, Corpus |-> 9, PCs |-> 12,
     Cover |-> 13, Crashes |-> 3, Execs |-> 14, SuppressedCrashes |-> 15,
     FuzzingTime |-> 16]

\* The methods of the behaviours that watch the metrics: manager_stats, one
\* other handler and the default branch.
StatsMethods == { "manager_stats", "upload_build", "frobnicate" }

\* Their payloads: for manager_stats also the later record of fuzzer1.
StatsPayloadsFor(method) ==
    IF method = "manager_stats"
    THEN {NotGzip} \cup StatsPayloads
         \cup {Payload(TRUE, TRUE, TRUE, LaterReport)}
    ELSE {NotGzip, GoodPayload}

\* Concurrent requests, with repeated reports of one manager.
NextStats ==
    ServeWith(Workers, StatsMethods,
              [m \in StatsMethods |-> StatsPayloadsFor(m)])

SpecStats == Init /\ [][NextStats]_vars

\* The steps of the request worker w serves, from the switch to the counter.
Step(w) ==
    \/ ProxyKnown(w)
    \/ ProxyDefault(w)
    \/ DecodeFail(w)
    \/ DecodeOk(w)
    \/ UpdateMetric(w)
    \/ RLock(w)
    \/ \E err \in BOOLEAN : InvokeOk(w, err)
    \/ InvokeErr(w)
    \/ RUnlock(w)
    \/ ProxyReturn(w)

\* Concurrent requests whose goroutines are scheduled as long as they can
\* run and whose dashapi calls return.
SpecConcFair == SpecConc /\ \A w \in Workers : WF_vars(Step(w))

(***************************************************************************)
(* The properties checked.  They are stated over what a request is (its    *)
(* method and payload) and what it did (calls, resp, ops, rlocks), not     *)
(* over the operators the actions are built from.                          *)
(***************************************************************************)
\* The 16 methods of the interface that carry a payload.
PayloadCarrying == KnownMethods \ {"commit_poll", "bug_list"}

\* The payload passes decompression and parsing.
WellFormed(p) == p.gzip /\ p.json /\ p.close

\* The dashboard operation the interface names for each method.
MatchingOperation ==
    [m \in KnownMethods |->
        CASE m = "upload_build"          -> "UploadBuild"
          [] m = "builder_poll"          -> "BuilderPoll"
          [] m = "job_poll"              -> "JobPoll"
          [] m = "job_done"              -> "JobDone"
          [] m = "report_build_error"    -> "ReportBuildError"
          [] m = "commit_poll"           -> "CommitPoll"
          [] m = "upload_commits"        -> "UploadCommits"
          [] m = "report_crash"          -> "ReportCrash"
          [] m = "need_repro"            -> "NeedRepro"
          [] m = "report_failed_repro"   -> "ReportFailedRepro"
          [] m = "log_error"             -> "LogError"
          [] m = "reporting_poll_bugs"   -> "ReportingPollBugs"
          [] m = "reporting_poll_notifs" -> "ReportingPollNotifications"
          [] m = "reporting_poll_closed" -> "ReportingPollClosed"
          [] m = "reporting_update"      -> "ReportingUpdate"
          [] m = "manager_stats"         -> "UploadManagerStats"
          [] m = "bug_list"              -> "BugList"
          [] m = "load_bug"              -> "LoadBug"]

\* The positions of r.calls at which the dashboard call returned an error
\* to its handler (LogError returns none).
ReturnedErrors(r) ==
    { i \in DOMAIN r.calls : r.calls[i].err /\ r.method # "log_error" }

\* The calls of r on dashboard d.
CallsOn(r, d) == { i \in DOMAIN r.calls : r.calls[i].dash = d }

\* r called the operation matching its method exactly once on every
\* dashboard of the registry, and made no other call.
InvokedEveryAdapterOnce(r) ==
    /\ \A d \in DOMAIN dashes : Cardinality(CallsOn(r, d)) = 1
    /\ \A i \in DOMAIN r.calls :
          /\ r.calls[i].dash \in DOMAIN dashes
          /\ r.calls[i].op = MatchingOperation[r.method]

\* The one response of a failed request.
GenericError == [status |-> 400, error |-> "unknown method"]

\* C1: a completed request of a known method, whose payload decodes (or
\* whose method takes none) and to which no dashboard call returned an
\* error, has invoked the operation matching its method exactly once on
\* every dashboard of the registry.
C1_EveryAdapterInvokedOnce ==
    \A w \in Workers :
        LET r == req[w]
        IN  ( /\ r.pc = "done"
              /\ r.method \in KnownMethods
              /\ r.method \in PayloadCarrying => WellFormed(r.payload)
              /\ ReturnedErrors(r) = {} )
            => InvokedEveryAdapterOnce(r)

\* A request with a payload completed after calling both of two dashboards.
C1_Witness ==
    \E w \in Workers :
        /\ req[w].pc = "done"
        /\ req[w].method = "job_done"
        /\ WellFormed(req[w].payload)
        /\ Cardinality(DOMAIN dashes) = 2
        /\ Len(req[w].calls) = 2
        /\ ReturnedErrors(req[w]) = {}

\* C2: when the i-th dashboard call of a request returns an error, the
\* calls before it returned none and were made once each on distinct
\* dashboards in iteration order, no call follows it at any later point of
\* the request, and the request has written the generic error and nothing
\* else.
C2_FanOutStopsAtFirstError ==
    \A w \in Workers :
        LET r == req[w]
        IN  \A i \in ReturnedErrors(r) :
                /\ i = Len(r.calls)
                /\ \A j \in 1..(i - 1) : ~r.calls[j].err
                /\ \A j \in 1..i :
                      /\ r.calls[j].dash = r.order[j]
                      /\ CallsOn(r, r.calls[j].dash) = {j}
                /\ r.pc \in {"return", "done"}
                /\ r.resp = <<GenericError>>

\* The second of two dashboards failed a request; the request is complete
\* with one call on each.
C2_Witness ==
    \E w \in Workers :
        /\ req[w].pc = "done"
        /\ req[w].method = "report_crash"
        /\ Cardinality(DOMAIN dashes) = 2
        /\ ReturnedErrors(req[w]) = {2}

\* The first of two dashboards failed a request, which is complete: the
\* second dashboard was skipped.
C2_WitnessSkipped ==
    \E w \in Workers :
        /\ req[w].pc = "done"
        /\ Cardinality(DOMAIN dashes) = 2
        /\ ReturnedErrors(req[w]) = {1}
        /\ Len(req[w].calls) = 1

\* C3: the step that dispatches a request of an unknown method completes
\* it: no dashboard call, no lock, the response 400 "unknown method", and
\* the counter requests_total{client, "invalid"} one higher with every
\* other counter and gauge as before.
C3_UnknownMethod ==
    [][ \A w \in Workers :
          ( /\ req[w].pc = "switch"
            /\ req[w].method \notin KnownMethods
            /\ req'[w] # req[w] )
          => /\ req'[w].pc = "done"
             /\ req'[w].calls = <<>>
             /\ req'[w].rlocks = 0
             /\ req'[w].resp = <<GenericError>>
             /\ metrics' =
                  [metrics EXCEPT
                     !.rpcCounters[<<req[w].client, "invalid">>] = @ + 1]
      ]_vars

\* A request of an unknown method is complete and the "invalid" counter of
\* its client is 1.
C3_Witness ==
    \E w \in Workers :
        /\ req[w].pc = "done"
        /\ req[w].method = "frobnicate"
        /\ metrics.rpcCounters[<<req[w].client, "invalid">>] = 1

\* C4: a request of a payload-carrying method whose payload fails
\* decompression or parsing never calls a dashboard and never takes the
\* read lock, and once its handler has returned its response is the
\* generic 400 error.
C4_DecodeFailure ==
    \A w \in Workers :
        LET r == req[w]
        IN  ( /\ r.pc \notin {"idle", "switch"}
              /\ r.method \in PayloadCarrying
              /\ ~WellFormed(r.payload) )
            => /\ r.calls = <<>>
               /\ r.rlocks = 0
               /\ r.pc \in {"decode", "return", "done"}
               /\ r.pc \in {"return", "done"} => r.resp = <<GenericError>>

\* A request whose payload decompresses and parses but whose gzip stream
\* fails to close is complete.
C4_Witness ==
    \E w \in Workers :
        /\ req[w].pc = "done"
        /\ req[w].method = "load_bug"
        /\ req[w].payload = BadClose
        /\ req[w].resp = <<GenericError>>

\* The eight per-manager metrics and what a manager_stats call with the
\* decoded record s does to each.
EightMetrics(s) ==
    { <<"managerUptimeGauges", "Set", s.UpTime>>,
      <<"managerCorpusGauges", "Set", s.Corpus>>,
      <<"managerPCsGauges", "Set", s.PCs>>,
      <<"managerCoverageGauges", "Set", s.Cover>>,
      <<"managerCrashesCounters", "Add", s.Crashes>>,
      <<"managerExecsCounters", "Add", s.Execs>>,
      <<"managerSuppCrashesCounters", "Add", s.SuppressedCrashes>>,
      <<"managerFuzzingDurCounters", "Add", s.FuzzingTime>> }

\* The metric operations of r on the vector vec.
OpsOn(r, vec) == { i \in DOMAIN r.ops : r.ops[i].vec = vec }

\* r has updated each of the eight metrics exactly once, under the manager
\* name of its payload and with the payload's value.
UpdatedAllEightOnce(r) ==
    \A e \in EightMetrics(r.payload.req) :
        \E i \in DOMAIN r.ops :
            /\ OpsOn(r, e[1]) = {i}
            /\ r.ops[i] = [vec |-> e[1], labels |-> <<r.payload.req.Name>>,
                           kind |-> e[2], v |-> e[3]]

\* With one request at a time the metrics show the updates of r: the gauges
\* hold its values, the counters at least its amounts.
MetricsShow(r) ==
    \A e \in EightMetrics(r.payload.req) :
        LET now == metrics[e[1]][<<r.payload.req.Name>>]
        IN  IF e[2] = "Set" THEN now = e[3] ELSE now >= e[3]

\* C5 as stated: every completed manager_stats call has updated all eight
\* metrics exactly once.
C5_EveryCallUpdates ==
    \A w \in Workers :
        (req[w].pc = "done" /\ req[w].method = "manager_stats")
        => UpdatedAllEightOnce(req[w])

\* C5 as amended: a manager_stats call whose payload decodes has, from the
\* moment it turns to the fan-out, updated all eight metrics exactly once
\* for the payload's manager name, whether the fan-out then succeeds or
\* fails; a call whose payload does not decode updates none of them.
C5_DecodedCallUpdatesOnce ==
    \A w \in Workers :
        LET r == req[w]
        IN  /\ ( /\ r.method = "manager_stats"
                 /\ WellFormed(r.payload)
                 /\ r.pc \in {"rlock", "range", "return", "done"} )
               => UpdatedAllEightOnce(r) /\ MetricsShow(r)
            /\ (r.method = "manager_stats" /\ ~WellFormed(r.payload))
               => \A e \in EightMetrics(r.payload.req) : OpsOn(r, e[1]) = {}

\* A manager_stats call with a decoded payload completed after its fan-out
\* failed on the first of two dashboards.
C5_Witness ==
    \E w \in Workers :
        /\ req[w].pc = "done"
        /\ req[w].method = "manager_stats"
        /\ req[w].payload.req.Name = "fuzzer2"
        /\ Cardinality(DOMAIN dashes) = 2
        /\ ReturnedErrors(req[w]) = {1}
        /\ metrics.managerCoverageGauges[<<"fuzzer2">>] = 6

\* The request failed after dispatch: its payload did not decode, or a
\* dashboard call returned an error.
TookErrorPath(r) ==
    \/ r.method \in PayloadCarrying /\ ~WellFormed(r.payload)
    \/ ReturnedErrors(r) # {}

\* The one operation on requests_total of a request counted under label.
CountedOnce(r, label) ==
    \E i \in DOMAIN r.ops :
        /\ OpsOn(r, "rpcCounters") = {i}
        /\ r.ops[i] = [vec |-> "rpcCounters", labels |-> <<r.client, label>>,
                       kind |-> "Inc", v |-> 1]

\* C6 as stated: a failed request of a known method other than manager_stats
\* completes without touching requests_total.
C6_ErrorPathSkipsCounter ==
    \A w \in Workers :
        LET r == req[w]
        IN  ( /\ r.pc = "done"
              /\ r.method \in KnownMethods \ {"manager_stats"}
              /\ TookErrorPath(r) )
            => OpsOn(r, "rpcCounters") = {}

\* C6 as amended: a failed request of a known method other than
\* manager_stats does not touch requests_total inside its handler, and
\* completes having incremented requests_total{client, method} exactly
\* once, as a successful request does.
C6_ErrorPathCountsOnce ==
    \A w \in Workers :
        LET r == req[w]
        IN  ( /\ r.method \in KnownMethods \ {"manager_stats"}
              /\ TookErrorPath(r) )
            => /\ r.pc # "done" => OpsOn(r, "rpcCounters") = {}
               /\ r.pc = "done" =>
                     /\ CountedOnce(r, r.method)
                     /\ metrics.rpcCounters[<<r.client, r.method>>] >= 1

\* A request whose payload is no gzip stream is complete and counted.
C6_Witness ==
    \E w \in Workers :
        /\ req[w].pc = "done"
        /\ req[w].method = "upload_commits"
        /\ req[w].payload = NotGzip
        /\ metrics.rpcCounters[<<req[w].client, "upload_commits">>] = 1

\* C7: between its arrival and its completion a manager_stats request
\* (a request of an unknown method) changes requests_total in one step
\* only, the step that completes it, and there by one increment of
\* {client, "manager_stats"} ({client, "invalid"}), whatever the outcome.
C7_CountedExactlyOnce ==
    [][ \A w \in Workers :
          LET r == req[w]
              label == <<r.client, IF r.method = "manager_stats"
                                   THEN "manager_stats" ELSE "invalid">>
          IN  ( /\ r.pc \notin {"idle", "done"}
                /\ r.method = "manager_stats" \/ r.method \notin KnownMethods
                /\ req'[w] # r )
              => /\ req'[w].pc # "switch"
                 /\ metrics'.rpcCounters =
                      IF req'[w].pc = "done"
                      THEN [metrics.rpcCounters EXCEPT ![label] = @ + 1]
                      ELSE metrics.rpcCounters
      ]_vars

\* Two manager_stats requests are complete, one after a decode failure and
\* one after a failed fan-out, and the counter is 2.
C7_Witness ==
    \E w, v \in Workers :
        /\ req[w].pc = "done" /\ req[v].pc = "done"
        /\ req[w].method = "manager_stats" /\ req[v].method = "manager_stats"
        /\ ~WellFormed(req[w].payload)
        /\ ReturnedErrors(req[v]) # {}
        /\ metrics.rpcCounters[<<req[w].client, "manager_stats">>] = 2

\* C8: a request writes at most one response; a completed request that
\* failed (unknown method, payload that does not decode, dashboard error)
\* has written 400 "unknown method", whatever the cause, and a completed
\* request that did not fail has written nothing.
C8_OneGenericError ==
    \A w \in Workers :
        LET r == req[w]
        IN  /\ Len(r.resp) <= 1
            /\ r.pc = "done" =>
                  r.resp = IF r.method \notin KnownMethods \/ TookErrorPath(r)
                           THEN <<GenericError>> ELSE <<>>

\* A request failed by a payload that is no JSON is complete.
C8_Witness ==
    \E w \in Workers :
        /\ req[w].pc = "done"
        /\ req[w].method = "need_repro"
        /\ req[w].payload = NotJSON
        /\ req[w].resp = <<GenericError>>

\* C9: a commit_poll or bug_list request never decodes its payload, and,
\* whatever the payload, completes with every dashboard invoked once and no
\* error response unless a dashboard call returned an error.
C9_NoDecodeStep ==
    \A w \in Workers :
        LET r == req[w]
        IN  r.method \in {"commit_poll", "bug_list"}
            => /\ r.pc # "decode"
               /\ (r.pc = "done" /\ ReturnedErrors(r) = {})
                  => InvokedEveryAdapterOnce(r) /\ r.resp = <<>>

\* A bug_list request with an absent payload completed after calling both
\* of two dashboards.
C9_Witness ==
    \E w \in Workers :
        /\ req[w].pc = "done"
        /\ req[w].method = "bug_list"
        /\ req[w].payload = NotGzip
        /\ Cardinality(DOMAIN dashes) = 2
        /\ Len(req[w].calls) = 2
        /\ req[w].resp = <<>>

\* The forward targets of a forward list.
Targets(fwd) == { fwd[i] : i \in DOMAIN fwd }

\* C10: in every state, under concurrent requests, the registry holds
\* exactly one entry per configured forward target, each the dashboard
\* client New made for that target, and the write lock is not held.
C10_RegistryFixed ==
    /\ DOMAIN dashes = Targets(forward)
    /\ \A k \in DOMAIN dashes : dashes[k] = [client |-> "proxy", addr |-> k,
                                            key |-> ""]
    /\ ~dashMu.writer

\* Two requests range over the registry of a forward list with a duplicate
\* at the same time.
C10_Witness ==
    /\ forward = <<"dashB", "dashA", "dashB">>
    /\ DOMAIN dashes = {"dashA", "dashB"}
    /\ dashMu.readers = 2
    /\ \A w \in Workers : req[w].pc = "range" /\ req[w].idx = 2

\* The read locks worker w holds.
Held(w) == req[w].rlocks - req[w].runlocks

\* Every request has released the read lock as often as it took it by the
\* time its handler returns, holds it only inside its loop and never twice;
\* the lock counts exactly the requests inside their loops, so with no
\* request in flight lock and registry are as New left them; the write
\* lock is never held, so a request at RLock is not blocked.
LocksBalanced ==
    /\ \A w \in Workers :
          /\ Held(w) = IF req[w].pc = "range" THEN 1 ELSE 0
          /\ req[w].pc \in {"return", "done"} =>
                req[w].rlocks = req[w].runlocks
          /\ req[w].pc = "rlock" => ENABLED RLock(w)
    /\ dashMu.readers = Cardinality({ w \in Workers : req[w].pc = "range" })
    /\ ~dashMu.writer
    /\ (\A w \in Workers : req[w].pc \in {"idle", "done"}) =>
          dashMu = [readers |-> 0, writer |-> FALSE]
    /\ DOMAIN dashes = { forward[i] : i \in DOMAIN forward }

\* A bound on the steps a request still takes: one per dashboard left in
\* the loop, one per metric statement left, one per remaining phase.
Rank(r) ==
    LET n == Cardinality(DOMAIN dashes)
    IN  CASE r.pc \in {"idle", "done"} -> 0
          [] r.pc = "return"  -> 1
          [] r.pc = "range"   -> 3 + Len(r.order) - r.idx
          [] r.pc = "rlock"   -> 3 + n
          [] r.pc = "metrics" -> 3 + n + Len(ManagerStatsUpdates(NoStats))
                                   - r.mstep
          [] r.pc = "decode"  -> 4 + n + Len(ManagerStatsUpdates(NoStats))
          [] r.pc = "switch"  -> 5 + n + Len(ManagerStatsUpdates(NoStats))

\* A request in flight can always take its next step: nothing it waits for
\* is held by another request.
Unblocked ==
    \A w \in Workers : req[w].pc \notin {"idle", "done"} => ENABLED Step(w)

\* Every step of a request in flight brings it closer to its completion.
Progress ==
    \A w \in Workers :
        (req[w].pc \notin {"idle", "done"} /\ req'[w] # req[w])
        => Rank(req'[w]) < Rank(req[w]) /\ Rank(req'[w]) >= 0

\* C11: the lock is balanced on every exit path and lock and registry are
\* left as they were (LocksBalanced, in every state); no request in flight
\* is ever blocked, and each of its steps lowers a bound on the steps left,
\* so it completes once its dashboard calls return.
C11_LockReleasedAndTerminates ==
    /\ []LocksBalanced
    /\ []Unblocked
    /\ [][Progress]_vars

\* The same termination stated as a liveness property of the fair
\* behaviours: every request in flight completes.
C11_EventuallyDone ==
    \A w \in Workers :
        (req[w].pc \notin {"idle", "done"}) ~> (req[w].pc = "done")

\* A request failed by its first dashboard is complete and holds no lock
\* while the other request is inside its loop, holding the read lock.
C11_Witness ==
    \E w, v \in Workers :
        /\ req[w].pc = "done"
        /\ req[w].calls # <<>> /\ req[w].calls[1].err
        /\ req[w].method = "upload_build"
        /\ req[w].rlocks = 1 /\ req[w].runlocks = 1
        /\ req[v].pc = "range" /\ req[v].idx = 2
        /\ dashMu.readers = 1

\* The counters among the metric vectors.
CounterVecs ==
    { "rpcCounters", "managerCrashesCounters", "managerExecsCounters",
      "managerSuppCrashesCounters", "managerFuzzingDurCounters" }

\* The label of requests_total a request is counted under.
CountedLabel(r) ==
    <<r.client, IF r.method \in KnownMethods THEN r.method ELSE "invalid">>

\* The payload of the call was decoded: the call is past the decode step
\* of a payload handler.
Decoded(r) ==
    /\ r.method \in PayloadCarrying
    /\ WellFormed(r.payload)
    /\ r.pc \in {"metrics", "rlock", "range", "return", "done"}

\* What one step of a call does to the metrics m, the call going from r to
\* r2: the step that completes it adds 1 to its label of requests_total; a
\* step of a decoded manager_stats call before its fan-out sets one of the
\* four gauges of its manager to the value it carries or adds the amount it
\* carries to one of the four counters of its manager; any other step
\* leaves every metric alone.
MetricsAfterStep(m, r, r2) ==
    IF r.pc \notin {"idle", "done"} /\ r2.pc = "done"
    THEN { [m EXCEPT !.rpcCounters[CountedLabel(r)] = @ + 1] }
    ELSE IF r.method = "manager_stats" /\ Decoded(r) /\ r.pc = "metrics"
    THEN { [m EXCEPT ![e[1]][<<r.payload.req.Name>>] =
                        IF e[2] = "Set" THEN e[3] ELSE @ + e[3]] :
             e \in EightMetrics(r.payload.req) }
    ELSE { m }

\* The metrics follow the calls step by step, and no counter decreases.
MetricsFollowCalls ==
    /\ \A w \in Workers :
          req'[w] # req[w]
          => metrics' \in MetricsAfterStep(metrics, req[w], req'[w])
    /\ (req' = req) => (metrics' = metrics)
    /\ \A vec \in CounterVecs : \A l \in DOMAIN metrics[vec] :
          metrics'[vec][l] >= metrics[vec][l]

\* Before the first call every counter and gauge is 0.
MetricsStartAtZero ==
    nreq = 0 =>
        \A vec \in DOMAIN metrics : \A l \in DOMAIN metrics[vec] :
            metrics[vec][l] = 0

C12_WitnessInterleaved ==
    /\ \A w \in Workers : req[w].pc = "done"
    /\ metrics.managerUptimeGauges[<<"fuzzer1">>] = 200
    /\ metrics.managerCorpusGauges[<<"fuzzer1">>] = 5

\* C13: a log_error request whose payload decodes never writes a
\* response and cannot take the error exit of the loop, even when a
\* dashboard call went wrong; it completes with every dashboard invoked
\* exactly once.  A request of any other known method that is about to call
\* a dashboard can take the error exit.
C13_LogErrorNeverAborts ==
    \A w \in Workers :
        LET r == req[w]
        IN  /\ (r.method = "log_error" /\ WellFormed(r.payload))
               => /\ r.resp = <<>>
                  /\ ~ENABLED InvokeErr(w)
                  /\ r.pc = "done" => InvokedEveryAdapterOnce(r)
            /\ ( /\ r.method \in KnownMethods \ {"log_error"}
                 /\ r.pc = "range"
                 /\ r.idx <= Len(r.order) )
               => ENABLED InvokeErr(w)

\* A log_error request is complete with one call on each of two dashboards,
\* the first of which went wrong, and no response written.
C13_Witness ==
    \E w \in Workers :
        /\ req[w].pc = "done"
        /\ req[w].method = "log_error"
        /\ Cardinality(DOMAIN dashes) = 2
        /\ Len(req[w].calls) = 2
        /\ req[w].calls[1].err
        /\ req[w].resp = <<>>

====
